---------------------------- MODULE Spec2Model ----------------------------
(***************************************************************************)
(* Model of the Mental Health & Lifestyle repository:                      *)
(*   - clean_mental_health_dataset.py : the cleaning pipeline (main)       *)
(*   - app.py, nadire_seker_2020556058.py,                                 *)
(*     muhammed_furkan_coban_2022555460.py : the dashboards' script runs   *)
(*                                                                         *)
(* Text is a sequence of one-character strings, so that strip, whitespace  *)
(* collapsing and title-casing are computed character by character.        *)
(* A cell of a table is a record [k, n, s]: k = "num" (a numeric literal   *)
(* n), k = "str" (the text s) or k = "nan" (pandas' missing value).        *)
(* In a file a "num" field is a number written the way to_csv writes it;   *)
(* k = "lit" is a field whose text s is a numeric literal for n in another *)
(* form (leading zeros), which read_csv parses and to_csv does not write.  *)
(* Numbers are integers; hours and scores are kept in whole units.         *)
(***************************************************************************)
EXTENDS Integers, Sequences, FiniteSets, TLC

(***************************************************************************)
(* Bounds of the model                                                     *)
(***************************************************************************)
MaxRows == 2

\* the most rows of a dataset the chart handlers are run on
MaxData == 2

\* the most countries the bar chart's slider is computed for
MaxCountries == 40

(***************************************************************************)
(* Cells                                                                   *)
(***************************************************************************)
Num(n) == [k |-> "num", n |-> n, s |-> <<>>]
Str(s) == [k |-> "str", n |-> 0, s |-> s]
NaN == [k |-> "nan", n |-> 0, s |-> <<>>]
Lit(n, s) == [k |-> "lit", n |-> n, s |-> s]

\* pandas isna / notna on one cell: only NaN is missing, the empty string is not
isna(v) == v.k = "nan"
notna(v) == ~isna(v)

Empty == Str(<<>>)

(***************************************************************************)
(* clean_mental_health_dataset.py : module constants                       *)
(***************************************************************************)
NumericOrder ==
    << "Age", "Sleep Hours", "Screen Time per Day (Hours)",
       "Social Interaction Score", "Happiness Score", "Work Hours per Week" >>

NUMERIC_BOUNDS ==
    [c \in {NumericOrder[i] : i \in 1..Len(NumericOrder)} |->
        CASE c = "Age" -> <<10, 100>>
          [] c = "Sleep Hours" -> <<3, 12>>
          [] c = "Screen Time per Day (Hours)" -> <<0, 10>>
          [] c = "Social Interaction Score" -> <<0, 10>>
          [] c = "Happiness Score" -> <<0, 10>>
          [] c = "Work Hours per Week" -> <<0, 84>>]

ESSENTIAL_NOT_NULL ==
    { "Age", "Gender", "Country", "Sleep Hours", "Stress Level",
      "Screen Time per Day (Hours)", "Social Interaction Score",
      "Work Hours per Week", "Happiness Score", "Exercise Level",
      "Diet Type", "Mental Health Condition" }

LowModerateHigh ==
    { <<"L","o","w">>,
      <<"M","o","d","e","r","a","t","e">>,
      <<"H","i","g","h">> }

SAFE_FILTER_SETS ==
    [c \in {"Stress Level", "Exercise Level", "Gender"} |->
        CASE c = "Stress Level" -> LowModerateHigh
          [] c = "Exercise Level" -> LowModerateHigh
          [] c = "Gender" ->
               { <<"M","a","l","e">>,
                 <<"F","e","m","a","l","e">>,
                 <<"O","t","h","e","r">>,
                 <<"N","o","n","-","B","i","n","a","r","y">>,
                 <<"N","o","n","b","i","n","a","r","y">>,
                 <<"P","r","e","f","e","r"," ","N","o","t"," ","T","o"," ","S","a","y">> }]

NORMALIZE_TITLE ==
    { "Gender", "Stress Level", "Exercise Level", "Diet Type",
      "Mental Health Condition", "Country" }

(***************************************************************************)
(* Python str methods used by normalize_text                               *)
(***************************************************************************)
LowerLetters ==
    << "a","b","c","d","e","f","g","h","i","j","k","l","m",
       "n","o","p","q","r","s","t","u","v","w","x","y","z" >>
UpperLetters ==
    << "A","B","C","D","E","F","G","H","I","J","K","L","M",
       "N","O","P","Q","R","S","T","U","V","W","X","Y","Z" >>

Whitespace == {" ", "\t"}

IsLower(ch) == \E i \in 1..Len(LowerLetters) : LowerLetters[i] = ch
IsUpper(ch) == \E i \in 1..Len(UpperLetters) : UpperLetters[i] = ch
IsCased(ch) == IsLower(ch) \/ IsUpper(ch)

ToUpper(ch) ==
    IF IsLower(ch)
    THEN UpperLetters[CHOOSE i \in 1..Len(LowerLetters) : LowerLetters[i] = ch]
    ELSE ch
ToLower(ch) ==
    IF IsUpper(ch)
    THEN LowerLetters[CHOOSE i \in 1..Len(UpperLetters) : UpperLetters[i] = ch]
    ELSE ch

\* str.strip(): whitespace removed at both ends
RECURSIVE lstrip(_)
lstrip(s) ==
    IF s = <<>> THEN s
    ELSE IF Head(s) \in Whitespace THEN lstrip(Tail(s)) ELSE s

RECURSIVE rstrip(_)
rstrip(s) ==
    IF s = <<>> THEN s
    ELSE IF s[Len(s)] \in Whitespace THEN rstrip(SubSeq(s, 1, Len(s) - 1)) ELSE s

strip(s) == rstrip(lstrip(s))

\* str.replace(r"\s+", " ", regex=True): every run of whitespace becomes one space
RECURSIVE collapse_ws(_)
collapse_ws(s) ==
    IF s = <<>> THEN s
    ELSE IF Head(s) \in Whitespace
         THEN <<" ">> \o collapse_ws(lstrip(s))
         ELSE <<Head(s)>> \o collapse_ws(Tail(s))

\* str.title(): a cased character is upper-cased when it follows an uncased
\* one (or starts the text) and lower-cased when it follows a cased one
RECURSIVE title_from(_, _)
title_from(s, prevCased) ==
    IF s = <<>> THEN s
    ELSE LET ch == Head(s)
         IN  IF IsCased(ch)
             THEN <<(IF prevCased THEN ToLower(ch) ELSE ToUpper(ch))>>
                    \o title_from(Tail(s), TRUE)
             ELSE <<ch>> \o title_from(Tail(s), FALSE)

\* str.swapcase() in the place of str.title(): every cased character changes
\* case, so that a second application undoes the first
RECURSIVE swapcase(_)
swapcase(s) ==
    IF s = <<>> THEN s
    ELSE <<(IF IsUpper(Head(s)) THEN ToLower(Head(s)) ELSE ToUpper(Head(s)))>>
            \o swapcase(Tail(s))

title(s) == title_from(s, FALSE)

\* normalize_text with the .str.strip() step left out
normalize_text_no_strip(v) ==
    IF isna(v) THEN v
    ELSE IF v.k = "str" THEN Str(title(collapse_ws(v.s)))
    ELSE v

\* normalize_text with the .str.title() step left out
normalize_text_no_title(v) ==
    IF isna(v) THEN v
    ELSE IF v.k = "str" THEN Str(collapse_ws(strip(v.s)))
    ELSE v

\* normalize_text on one element of the Series: NaN is left alone
\* (mask = s.notna()), everything else is strip -> collapse -> title.
\* astype(str) leaves the digits of a number as they are.
normalize_text(v) ==
    IF isna(v) THEN v
    ELSE IF v.k = "str" THEN Str(title(collapse_ws(strip(v.s))))
    ELSE v

(***************************************************************************)
(* Files and data frames                                                   *)
(*                                                                         *)
(* A CSV file is [kind, cols, rows]: kind = "table" for a well-formed      *)
(* file (a header and rows, every row a function from the header's columns *)
(* to cells), "missing" for a path that does not exist, "empty" for a file *)
(* without a header and "ragged" for a file with a row of more fields than *)
(* the header; pandas.read_csv raises on the last three.  kind = "none" is *)
(* a path nothing has been written to.                                     *)
(* A data frame is [cols, dtype, rows], every row [idx, cells]: idx is the *)
(* row's label in the frame's index, which filtering keeps.                *)
(***************************************************************************)
NoFile == [kind |-> "none", cols |-> {}, rows |-> <<>>]
BadFile(kind) == [kind |-> kind, cols |-> {}, rows |-> <<>>]
Table(cols, rows) == [kind |-> "table", cols |-> cols, rows |-> rows]

NoFrame == [cols |-> {}, dtype |-> <<>>, rows |-> <<>>]

\* pandas' default NaN strings (a part of STR_NA_VALUES), used only when
\* keep_default_na is true
DefaultNaStrings ==
    { <<>>,
      <<"N","o","n","e">>,
      <<"N","A">>,
      <<"N","a","N">>,
      <<"n","a","n">>,
      <<"n","u","l","l">> }

\* one field of the file as read_csv parses it
parse_cell(v, keep_default_na) ==
    IF keep_default_na /\ v.k = "str" /\ v.s \in DefaultNaStrings THEN NaN ELSE v

\* dtype inference of read_csv: a column is numeric when every field that is
\* not NaN is a numeric literal, otherwise it is an object column of str
infer_dtype(cells) ==
    IF \A v \in cells : v.k \in {"num", "lit", "nan"} THEN "number" ELSE "object"

\* the value read_csv holds for a field once the column's dtype is known: in
\* a numeric column a literal is the number it denotes, in an object column
\* it stays the text that was in the file
convert_cell(v, dtype) ==
    IF v.k = "lit" /\ dtype = "number" THEN Num(v.n) ELSE v

\* pd.read_csv(path, keep_default_na=...) on a well-formed file
read_csv(file, keep_default_na) ==
    LET parsed(i) == [c \in file.cols |-> parse_cell(file.rows[i][c], keep_default_na)]
        n == Len(file.rows)
        dtype == [c \in file.cols |-> infer_dtype({parsed(i)[c] : i \in 1..n})]
    IN  [cols |-> file.cols,
         dtype |-> dtype,
         rows |-> [i \in 1..n |->
                     [idx |-> i,
                      cells |-> [c \in file.cols |-> convert_cell(parsed(i)[c], dtype[c])]]]]

\* read_csv that raises for a missing file only and yields a frame without
\* rows for the other unparsable files
read_csv_raises_missing_only(file) == file.kind = "missing"

\* read_csv raises (FileNotFoundError, EmptyDataError, ParserError)
read_csv_raises(file) == file.kind # "table"

\* the frame main works on after line 79
main_read_csv(file) == read_csv(file, FALSE)

\* the rows at the positions where the boolean mask is true, in order
RECURSIVE take_rows(_, _)
take_rows(rows, mask) ==
    IF rows = <<>> THEN <<>>
    ELSE (IF Head(mask) THEN <<Head(rows)>> ELSE <<>>)
            \o take_rows(Tail(rows), Tail(mask))

\* a filter done as a join against a lookup table that holds a key twice:
\* every kept row comes out twice
select_rows_join_duplicates(d, mask) ==
    [d EXCEPT !.rows = take_rows(d.rows, mask) \o take_rows(d.rows, mask)]

\* df[mask]: boolean indexing keeps the rows whose mask is true, in order
select_rows(d, mask) == [d EXCEPT !.rows = take_rows(d.rows, mask)]


\* existing_essential = [c for c in ESSENTIAL_NOT_NULL if c in df.columns]
existing_essential(d) == ESSENTIAL_NOT_NULL \cap d.cols

\* dropna over all columns with the empty string counted as missing
dropna_any_empty(d, subset) ==
    LET keep(r) == \A c \in d.cols : notna(r.cells[c]) /\ r.cells[c] # Empty
    IN  select_rows(d, [i \in 1..Len(d.rows) |-> keep(d.rows[i])])

\* df.dropna(subset=...)
dropna(d, subset) ==
    LET keep(r) == \A c \in subset : notna(r.cells[c])
    IN  select_rows(d, [i \in 1..Len(d.rows) |-> keep(d.rows[i])])

\* normalization applied to every column of the frame
normalize_all_columns(d) ==
    [d EXCEPT !.rows =
        [i \in 1..Len(d.rows) |->
            [d.rows[i] EXCEPT !.cells =
                [c \in d.cols |-> normalize_text(d.rows[i].cells[c])]]]]

\* for col in NORMALIZE_TITLE: if col in df.columns: df[col] = normalize_text(df[col])
normalize_columns(d) ==
    [d EXCEPT !.rows =
        [i \in 1..Len(d.rows) |->
            [d.rows[i] EXCEPT !.cells =
                [c \in d.cols |->
                    IF c \in NORMALIZE_TITLE
                    THEN normalize_text(d.rows[i].cells[c])
                    ELSE d.rows[i].cells[c]]]]]

\* Series.isin(allowed) on one element
isin(v, allowed) == v.k = "str" /\ v.s \in allowed

\* for col, allowed in SAFE_FILTER_SETS.items():
\*     if col in df.columns: df = df[df[col].isin(allowed)]
categorical_filter(d) ==
    LET keep(r) == \A c \in (DOMAIN SAFE_FILTER_SETS) \cap d.cols :
                        isin(r.cells[c], SAFE_FILTER_SETS[c])
    IN  select_rows(d, [i \in 1..Len(d.rows) |-> keep(d.rows[i])])

\* between with the upper end not checked
between_lower_only(v, lo, hi) == v.k = "num" /\ lo <= v.n

\* Series.between(lo, hi, inclusive="both") on one element of a numeric column
between(v, lo, hi) == v.k = "num" /\ lo <= v.n /\ v.n <= hi

\* `str >= int` raises TypeError: the comparison of an object column with a
\* number raises as soon as the column has an element to compare
between_raises(d, col) == d.dtype[col] = "object" /\ d.rows # <<>>

\* the numeric loop without `if col in df.columns`: df[col] raises KeyError
\* for a column the frame does not have
RECURSIVE enforce_bounds_no_guard(_, _)
enforce_bounds_no_guard(d, i) ==
    IF i > Len(NumericOrder) THEN [raised |-> FALSE, df |-> d]
    ELSE LET col == NumericOrder[i]
             keep(r) == r.cells[col].k = "num"
                        /\ NUMERIC_BOUNDS[col][1] <= r.cells[col].n
                        /\ r.cells[col].n <= NUMERIC_BOUNDS[col][2]
         IN  IF col \notin d.cols THEN [raised |-> TRUE, df |-> d]
             ELSE IF d.dtype[col] = "object" /\ d.rows # <<>> THEN [raised |-> TRUE, df |-> d]
             ELSE enforce_bounds_no_guard(
                      [d EXCEPT !.rows = SelectSeq(d.rows, keep)], i + 1)

\* for col, (lo, hi) in NUMERIC_BOUNDS.items():
\*     if col in df.columns: df = df[df[col].between(lo, hi, inclusive="both")]
\* from the i-th entry of NUMERIC_BOUNDS on; [raised, df]
RECURSIVE enforce_bounds(_, _)
enforce_bounds(d, i) ==
    IF i > Len(NumericOrder) THEN [raised |-> FALSE, df |-> d]
    ELSE LET col == NumericOrder[i]
             keep(r) == between(r.cells[col], NUMERIC_BOUNDS[col][1], NUMERIC_BOUNDS[col][2])
         IN  IF col \notin d.cols THEN enforce_bounds(d, i + 1)
             ELSE IF between_raises(d, col) THEN [raised |-> TRUE, df |-> d]
             ELSE enforce_bounds(select_rows(d, [j \in 1..Len(d.rows) |-> keep(d.rows[j])]), i + 1)

numeric_filter(d) == enforce_bounds(d, 1)

\* DataFrame.to_csv(path, index=...): the header and one line per row; with
\* index=True the index is written as a first, unnamed column
frame_to_file(d, index) ==
    LET cols == IF index THEN d.cols \cup {"Unnamed: 0"} ELSE d.cols
    IN  Table(cols,
              [i \in 1..Len(d.rows) |->
                  [c \in cols |-> IF c \in d.cols THEN d.rows[i].cells[c]
                                  ELSE Num(d.rows[i].idx)]])

\* to_csv with pandas' default index=True
to_csv_with_index(d) == frame_to_file(d, TRUE)

\* df.to_csv(args.output, index=False)
to_csv(d) == frame_to_file(d, FALSE)

\* the six print calls of main
OutputPath == "Mental_Health_Lifestyle_CLEAN.csv"

\* the report with the categorical count printed on the numeric line
report_lines_categorical_last(n_initial, n_dropna, n_categorical, n_numeric, path) ==
    << <<"=== Cleaning Report ===">>,
       <<"Input rows:", n_initial>>,
       <<"After dropna (essential cols only):", n_dropna>>,
       <<"After categorical fix:", n_categorical>>,
       <<"After numeric bounds:", n_categorical>>,
       <<"Output saved to:", path>> >>

report_lines(n_initial, n_dropna, n_categorical, n_numeric, path) ==
    << <<"=== Cleaning Report ===">>,
       <<"Input rows:", n_initial>>,
       <<"After dropna (essential cols only):", n_dropna>>,
       <<"After categorical fix:", n_categorical>>,
       <<"After numeric bounds:", n_numeric>>,
       <<"Output saved to:", path>> >>

(***************************************************************************)
(* Input files of the cleaning script                                      *)
(***************************************************************************)
AllCols == ESSENTIAL_NOT_NULL \cup {"Notes"}

\* columns that occur together in a two-column input
PairCols == {"Age", "Sleep Hours", "Gender", "Stress Level", "Country", "Notes"}

Headers == {{c} : c \in AllCols} \cup {{a, b} : a, b \in PairCols}

\* the fields tried in a column: for a bounded numeric column the values
\* around both ends of its interval and an empty field; for a text column an
\* allowed value, a value that normalization changes, one it cannot make
\* allowed, and an empty field; for a free-text column a word, a number
\* written with leading zeros, and an empty field
CellPool(c) ==
    IF c \in DOMAIN NUMERIC_BOUNDS
    THEN LET lo == NUMERIC_BOUNDS[c][1]
             hi == NUMERIC_BOUNDS[c][2]
         IN  {Num(lo - 1), Num(lo), Num(hi), Num(hi + 1), Empty}
    ELSE IF c = "Gender"
    THEN { Str(<<"M","a","l","e">>),
           Str(<<" ","n","o","n","-","b","i","n","a","r","y">>),
           Str(<<"p","r","e","f","e","r"," "," ","N","O","T"," ","t","o","\t","s","a","y">>),
           Str(<<"X">>),
           Empty }
    ELSE IF c \in {"Stress Level", "Exercise Level"}
    THEN { Str(<<"L","o","w">>),
           Str(<<"h","I","G","H","\t">>),
           Str(<<"M","e","d">>),
           Empty }
    ELSE IF c \in {"Diet Type", "Mental Health Condition", "Country"}
    THEN { Str(<<"N","o","n","e">>),
           Str(<<"u","s"," "," ","A">>),
           Empty }
    ELSE { Str(<<"o","k">>), Lit(7, <<"0","0","7">>), Empty }

RowsOver(cols) == [cols -> UNION {CellPool(c) : c \in cols}]

\* the rows a file with the header cols can hold
FileRows(cols) == {r \in RowsOver(cols) : \A c \in cols : r[c] \in CellPool(c)}

\* the kinds of file read_csv cannot parse
BadKinds == {"missing", "empty", "ragged"}

(***************************************************************************)
(* State of one run of clean_mental_health_dataset.py                      *)
(***************************************************************************)
VARIABLES
    inFile,             \* the file at args.input
    outFile,            \* the file at args.output
    pc,                 \* position of main
    df,                 \* main's df
    initial_rows,
    after_dropna,
    after_categorical,
    after_numeric,
    stdout              \* the lines printed so far

cleanVars == << inFile, outFile, pc, df, initial_rows, after_dropna,
                after_categorical, after_numeric, stdout >>

(***************************************************************************)
(* State of one browser session of a dashboard script                      *)
(***************************************************************************)
VARIABLES
    script,             \* the dashboard script the session runs
    exists,             \* the candidate paths at which a file exists
    dpc,                \* position of the script run
    ui,                 \* the elements the current run has rendered
    cached,             \* st.cache_data holds load_data's result
    member,             \* value of the member radio (app.py)
    choice,             \* value of the chart radio
    readLog,            \* the paths pd.read_csv has read, in order
    fileCols,           \* the columns of the dataset file
    cacheCols,          \* the columns of the frame st.cache_data stores
    runCols,            \* the columns of the current run's df
    run_member,         \* the member radio's value the current run works with
    run_choice,         \* the chart radio's value the current run works with
    shown,              \* the radios of an earlier run are on the screen
    superseded          \* an interaction has ended a run before its end

dashVars == << script, exists, dpc, ui, cached, member, choice, readLog,
               fileCols, cacheCols, runCols, run_member, run_choice, shown,
               superseded >>

(***************************************************************************)
(* State of one chart handler of a dashboard, run on a loaded dataset      *)
(***************************************************************************)
VARIABLES
    cdata,              \* the rows of the loaded dataset df
    cpc,                \* position of the handler
    handler,            \* the chart the handler draws
    sel,                \* the values of the handler's widgets
    frame,              \* the filtered frame of the handler
    figure,             \* the data handed to the plotting call
    outcome             \* how the handler ended

chartVars == << cdata, cpc, handler, sel, frame, figure, outcome >>

vars == << cleanVars, dashVars, chartVars >>

\* no chart handler
ChartOff ==
    /\ cdata = <<>>
    /\ cpc = "off"
    /\ handler = "none"
    /\ sel = <<>>
    /\ frame = <<>>
    /\ figure = <<>>
    /\ outcome = "none"

\* no dashboard session
DashOff ==
    /\ script = "none"
    /\ exists = {}
    /\ dpc = "off"
    /\ ui = <<>>
    /\ cached = FALSE
    /\ member = 1
    /\ choice = 1
    /\ readLog = <<>>
    /\ fileCols = {}
    /\ cacheCols = {}
    /\ runCols = {}
    /\ run_member = 1
    /\ run_choice = 1
    /\ shown = FALSE
    /\ superseded = FALSE

\* no run of the cleaning script
CleanOff ==
    /\ inFile = NoFile
    /\ outFile = NoFile
    /\ pc = "off"
    /\ df = NoFrame
    /\ initial_rows = 0
    /\ after_dropna = 0
    /\ after_categorical = 0
    /\ after_numeric = 0
    /\ stdout = <<>>

Init ==
    /\ \/ \E kd \in BadKinds : inFile = BadFile(kd)
       \/ \E h \in Headers : \E m \in 0..MaxRows : \E rows \in [1..m -> FileRows(h)] :
             inFile = Table(h, rows)
    /\ outFile = NoFile
    /\ pc = "start"
    /\ df = NoFrame
    /\ initial_rows = 0
    /\ after_dropna = 0
    /\ after_categorical = 0
    /\ after_numeric = 0
    /\ stdout = <<>>
    /\ DashOff
    /\ ChartOff

\* line 79-80: df = pd.read_csv(args.input, keep_default_na=False)
ReadCsv ==
    /\ pc = "start"
    /\ ~read_csv_raises(inFile)
    /\ df' = main_read_csv(inFile)
    /\ initial_rows' = Len(df'.rows)
    /\ pc' = "read"
    /\ UNCHANGED << dashVars, chartVars >>
    /\ UNCHANGED << inFile, outFile, after_dropna, after_categorical, after_numeric, stdout >>

\* line 79 raises: the exception leaves main
ReadCsvRaises ==
    /\ pc = "start"
    /\ read_csv_raises(inFile)
    /\ pc' = "error"
    /\ UNCHANGED << dashVars, chartVars >>
    /\ UNCHANGED << inFile, outFile, df, initial_rows, after_dropna,
                    after_categorical, after_numeric, stdout >>

\* lines 83-85
DropNa ==
    /\ pc = "read"
    /\ df' = dropna(df, existing_essential(df))
    /\ after_dropna' = Len(df'.rows)
    /\ pc' = "dropna"
    /\ UNCHANGED << dashVars, chartVars >>
    /\ UNCHANGED << inFile, outFile, initial_rows, after_categorical, after_numeric, stdout >>

\* lines 88-90
Normalize ==
    /\ pc = "dropna"
    /\ df' = normalize_columns(df)
    /\ pc' = "normalized"
    /\ UNCHANGED << dashVars, chartVars >>
    /\ UNCHANGED << inFile, outFile, initial_rows, after_dropna,
                    after_categorical, after_numeric, stdout >>

\* lines 93-96
CategoricalFilter ==
    /\ pc = "normalized"
    /\ df' = categorical_filter(df)
    /\ after_categorical' = Len(df'.rows)
    /\ pc' = "categorical"
    /\ UNCHANGED << dashVars, chartVars >>
    /\ UNCHANGED << inFile, outFile, initial_rows, after_dropna, after_numeric, stdout >>

\* lines 99-102
NumericFilter ==
    /\ pc = "categorical"
    /\ ~numeric_filter(df).raised
    /\ df' = numeric_filter(df).df
    /\ after_numeric' = Len(df'.rows)
    /\ pc' = "numeric"
    /\ UNCHANGED << dashVars, chartVars >>
    /\ UNCHANGED << inFile, outFile, initial_rows, after_dropna, after_categorical, stdout >>

\* line 101 raises TypeError: the exception leaves main
NumericFilterRaises ==
    /\ pc = "categorical"
    /\ numeric_filter(df).raised
    /\ pc' = "error"
    /\ UNCHANGED << dashVars, chartVars >>
    /\ UNCHANGED << inFile, outFile, df, initial_rows, after_dropna,
                    after_categorical, after_numeric, stdout >>

\* line 105
ToCsv ==
    /\ pc = "numeric"
    /\ outFile' = to_csv(df)
    /\ pc' = "saved"
    /\ UNCHANGED << dashVars, chartVars >>
    /\ UNCHANGED << inFile, df, initial_rows, after_dropna,
                    after_categorical, after_numeric, stdout >>

\* lines 108-113
Report ==
    /\ pc = "saved"
    /\ stdout' = stdout \o report_lines(initial_rows, after_dropna,
                                        after_categorical, after_numeric, OutputPath)
    /\ pc' = "done"
    /\ UNCHANGED << dashVars, chartVars >>
    /\ UNCHANGED << inFile, outFile, df, initial_rows, after_dropna,
                    after_categorical, after_numeric >>

Next ==
    \/ ReadCsv
    \/ ReadCsvRaises
    \/ DropNa
    \/ Normalize
    \/ CategoricalFilter
    \/ NumericFilter
    \/ NumericFilterRaises
    \/ ToCsv
    \/ Report

Spec == Init /\ [][Next]_vars

\* the script run once more, with --input the file the run before wrote
\* (lines 75-76, 79); it writes another file and prints below the first
\* report
RunOnOutput ==
    /\ pc = "done"
    /\ Len(stdout) = Len(report_lines(0, 0, 0, 0, OutputPath))
    /\ inFile' = outFile
    /\ outFile' = NoFile
    /\ pc' = "start"
    /\ df' = NoFrame
    /\ initial_rows' = 0
    /\ after_dropna' = 0
    /\ after_categorical' = 0
    /\ after_numeric' = 0
    /\ UNCHANGED << dashVars, chartVars >>
    /\ UNCHANGED stdout

NextTwice ==
    \/ Next
    \/ RunOnOutput

SpecTwice == Init /\ [][NextTwice]_vars

(***************************************************************************)
(* The dashboards: app.py, nadire_seker_2020556058.py and                  *)
(* muhammed_furkan_coban_2022555460.py                                     *)
(*                                                                         *)
(* A run executes the script from top to bottom.  The contents of the      *)
(* loaded dataset are not part of this state: where a chart branch stops   *)
(* (after which of its widgets, and with a plot or with a message in the   *)
(* plot's place) depends on the data and is a choice among the branch's    *)
(* possible stops.                                                         *)
(***************************************************************************)
App == "app.py"
Nadire == "nadire_seker_2020556058.py"
Muhammed == "muhammed_furkan_coban_2022555460.py"

Scripts == {App, Nadire, Muhammed}

\* load_data's candidate_paths, in order; base_dir is the script's directory,
\* the path of muhammed_furkan_coban_2022555460.py is relative to the working
\* directory
candidate_paths(sc) ==
    IF sc = App
    THEN << "base_dir/data/Mental_Health_Lifestyle_CLEAN.csv",
            "base_dir/Mental_Health_Lifestyle_CLEAN.csv",
            "/mnt/data/Mental_Health_Lifestyle_CLEAN.csv",
            "/mnt/data/Mental_Health_Lifestyle_CLEAN (1).csv" >>
    ELSE IF sc = Nadire
    THEN << "base_dir/data/Mental_Health_Lifestyle_CLEAN.csv",
            "base_dir/data/mental_health_lifestyle_clean.csv",
            "/mnt/data/Mental_Health_Lifestyle_CLEAN.csv",
            "/mnt/data/Mental_Health_Lifestyle_CLEAN (1).csv" >>
    ELSE << "cwd/Mental_Health_Lifestyle_CLEAN.csv" >>

AllPaths ==
    UNION {{candidate_paths(sc)[i] : i \in 1..Len(candidate_paths(sc))} : sc \in Scripts}

\* the candidate loop without its return: the last existing candidate wins
RECURSIVE last_existing(_, _, _)
last_existing(paths, fs, i) ==
    IF i > Len(paths) THEN 0
    ELSE LET later == last_existing(paths, fs, i + 1)
         IN  IF later # 0 THEN later
             ELSE IF paths[i] \in fs THEN i ELSE 0

\* for p in candidate_paths: if p and os.path.exists(p): ... return
\* the index of the first candidate that exists, 0 when none does
RECURSIVE first_existing(_, _, _)
first_existing(paths, fs, i) ==
    IF i > Len(paths) THEN 0
    ELSE IF paths[i] \in fs THEN i
    ELSE first_existing(paths, fs, i + 1)

\* load_data raises FileNotFoundError: no candidate exists (app.py, nadire:
\* the raise after the loop; muhammed: pd.read_csv on the missing path)
load_data_raises(sc, fs) == first_existing(candidate_paths(sc), fs, 1) = 0

\* the script calls load_data inside try / except FileNotFoundError
catches_not_found(sc) == sc \in {App, Nadire}

Element(kind, name) == [kind |-> kind, name |-> name]

\* what a run renders before it calls load_data
prelude(sc) ==
    IF sc = Muhammed THEN <<>>
    ELSE << Element("title", "title") >>

\* app.py with `if` in place of `elif` in the chart tests of a member
\* section, each test true: the section creates the widgets of its three
\* charts
widgets_every_branch(sc, m, ch) ==
    IF sc = App
    THEN << "member_selector" >> \o
         ( IF m = 1
           THEN << "m2_chart_choice", "m2_scatter_gender", "m2_scatter_age_group",
                   "m2_scatter_sleep_range", "m2_tree_diet", "m2_tree_mh",
                   "m2_box_age_range" >>
           ELSE IF m = 2
           THEN << "m1_tab_choice_radio", "m1_bar_top_n", "m1_bar_order",
                   "m1_sb_countries", "m1_pc_stress_levels", "m1_pc_work_range",
                   "m1_pc_screen_range" >>
           ELSE << "m3_chart_choice", "m3_gender", "m3_country", "m3_screen",
                   "m3_scatter_dims", "m3_heatmap_bins", "m3_violin_gender" >> )
    ELSE IF sc = Nadire
    THEN << "Gender", "Country", "Screen Time per Day (Hours)",
            "m3_scatter_dims", "heatmap_bins", "violin_gender" >>
    ELSE << "tab_choice_radio", "bar_top_n", "bar_order", "sb_countries",
            "pc_stress_levels", "pc_work_range", "pc_screen_range" >>

\* the widgets a run creates after load_data, in the order of the script,
\* when no branch stops early
widgets(sc, m, ch) ==
    IF sc = App
    THEN << "member_selector" >> \o
         ( IF m = 1
           THEN << "m2_chart_choice" >> \o
                ( IF ch = 1 THEN << "m2_scatter_gender", "m2_scatter_age_group",
                                    "m2_scatter_sleep_range" >>
                  ELSE IF ch = 2 THEN << "m2_tree_diet", "m2_tree_mh" >>
                  ELSE << "m2_box_age_range" >> )
           ELSE IF m = 2
           THEN << "m1_tab_choice_radio" >> \o
                ( IF ch = 1 THEN << "m1_bar_top_n", "m1_bar_order" >>
                  ELSE IF ch = 2 THEN << "m1_sb_countries" >>
                  ELSE << "m1_pc_stress_levels", "m1_pc_work_range",
                          "m1_pc_screen_range" >> )
           ELSE << "m3_chart_choice", "m3_gender", "m3_country", "m3_screen" >> \o
                ( IF ch = 1 THEN << "m3_scatter_dims" >>
                  ELSE IF ch = 2 THEN << "m3_heatmap_bins" >>
                  ELSE << "m3_violin_gender" >> ) )
    ELSE IF sc = Nadire
    THEN << "Gender", "Country", "Screen Time per Day (Hours)",
            "m3_scatter_dims", "heatmap_bins", "violin_gender" >>
    ELSE << "tab_choice_radio" >> \o
         ( IF ch = 1 THEN << "bar_top_n", "bar_order" >>
           ELSE IF ch = 2 THEN << "sb_countries" >>
           ELSE << "pc_stress_levels", "pc_work_range", "pc_screen_range" >> )

\* the radios every run creates once the data is loaded
radios(sc) == IF sc = App THEN 2 ELSE IF sc = Muhammed THEN 1 ELSE 0

\* the path load_data reads: the first candidate that exists
load_data_path(sc, fs) ==
    candidate_paths(sc)[first_existing(candidate_paths(sc), fs, 1)]

\* the columns of Mental_Health_Lifestyle_CLEAN.csv
FullCols == ESSENTIAL_NOT_NULL

\* the columns a dataset file may lack
Droppable == {"Stress Level", "Age", "Gender", "Happiness Score"}

DatasetCols == {FullCols} \cup {FullCols \ {c} : c \in Droppable}

\* the module-level statements after load_data raise: KeyError at
\* df["Stress Level"] of muhammed_furkan_coban_2022555460.py
top_raises(sc, cols) == sc = Muhammed /\ "Stress Level" \notin cols

\* the columns of df after the module-level statements that follow load_data
derived_columns(sc, cols) ==
    IF sc = App
    THEN cols \cup (IF "Stress Level" \in cols THEN {"Stress_Level_Code"} ELSE {})
              \cup (IF "Age" \in cols THEN {"Age_Group"} ELSE {})
    ELSE IF sc = Muhammed THEN cols \cup {"Stress_Level_Code"}
    ELSE cols

\* the chart each radio option selects
chart_of(sc, m, ch) ==
    IF sc = App
    THEN IF m = 1 THEN << "scatter", "treemap", "box" >>[ch]
         ELSE IF m = 2 THEN << "bar", "sunburst", "parallel" >>[ch]
         ELSE << "scatter_matrix", "heatmap", "violin" >>[ch]
    ELSE << "bar", "sunburst", "parallel" >>[ch]

\* the charts a run shows, in order
charts(sc, m, ch) ==
    IF sc = Nadire THEN << "scatter_matrix", "heatmap", "violin" >>
    ELSE << chart_of(sc, m, ch) >>

\* the charts written as functions of the filtered frame
Member3Charts == {"scatter_matrix", "heatmap", "violin"}

\* the columns a chart indexes by name with no check, before it tests
\* whether its data is empty
unguarded(chart) ==
    IF chart = "scatter" THEN {"Gender", "Age_Group", "Sleep Hours", "Stress Level"}
    ELSE IF chart = "treemap" THEN {"Diet Type", "Mental Health Condition"}
    ELSE IF chart = "box" THEN {"Age"}
    ELSE IF chart = "bar" THEN {"Country", "Happiness Score"}
    ELSE IF chart = "sunburst" THEN {"Country", "Exercise Level", "Mental Health Condition"}
    ELSE IF chart = "parallel" THEN {"Stress Level", "Work Hours per Week",
                                     "Screen Time per Day (Hours)", "Happiness Score"}
    ELSE {}

\* the columns only the plotting call of a chart names
plotted(chart) ==
    IF chart = "scatter" THEN {"Age"}
    ELSE IF chart = "box" THEN {"Gender", "Sleep Hours"}
    ELSE {}

\* the columns a chart tests for and answers with st.info when absent
checked(chart) ==
    IF chart = "heatmap" THEN {"Screen Time per Day (Hours)", "Exercise Level"}
    ELSE IF chart = "violin" THEN {"Happiness Score", "Exercise Level"}
    ELSE {}

\* every column a chart expects in the dataset
expects(chart) ==
    unguarded(chart) \cup plotted(chart) \cup checked(chart)
        \cup (IF chart = "heatmap" THEN {"Happiness Score"} ELSE {})

\* what takes the plot's place; "exception" is an uncaught exception
Outcomes == {"plot", "warning", "info"}

\* how a chart's code can end on a frame with the columns cols, over all
\* data and widget values
chart_outcomes(chart, cols) ==
    IF ~(unguarded(chart) \subseteq cols) THEN {"exception"}
    ELSE IF chart \in Member3Charts
    THEN {"warning"} \cup
         ( IF ~(checked(chart) \subseteq cols) THEN {"info"}
           ELSE IF chart = "scatter_matrix" THEN {"info", "plot"}
           ELSE IF chart = "heatmap" /\ "Happiness Score" \notin cols
                THEN {"plot", "exception"}
           ELSE {"plot"} )
    ELSE {"warning"} \cup
         ( IF plotted(chart) \subseteq cols THEN {"plot"} ELSE {"exception"} )

\* the columns of df when the run ends: the scatter branch adds Stress_Num
run_columns(sc, m, ch, cols) ==
    derived_columns(sc, cols) \cup
        ( IF /\ sc = App
             /\ chart_of(sc, m, ch) = "scatter"
             /\ unguarded("scatter") \subseteq derived_columns(sc, cols)
          THEN {"Stress_Num"} ELSE {} )

\* st.cache_data keeps a serialized copy of load_data's result and hands
\* each run a fresh copy: what a run does to its df does not reach the
\* stored frame
cache_data_shared(stored, run) == run

cache_data_store(stored, run) == stored

\* the elements of a run that created the first k widgets and ended its
\* charts with the outcomes os
rendered(sc, m, ch, k, os) ==
    [i \in 1..k |-> Element("widget", widgets(sc, m, ch)[i])]
        \o [i \in 1..Len(os) |-> Element(os[i], charts(sc, m, ch)[i])]

\* the outcomes of the charts of one run: a chart that raises ends the run
run_outcomes(sc, m, ch, cols) ==
    LET cs == charts(sc, m, ch)
    IN  UNION { { os \in [1..n -> Outcomes \cup {"exception"}] :
                    /\ \A i \in 1..n : os[i] \in chart_outcomes(cs[i], cols)
                    /\ \A i \in 1..(n - 1) : os[i] # "exception"
                    /\ n < Len(cs) => os[n] = "exception" }
              : n \in 1..Len(cs) }

InitDash ==
    /\ script \in Scripts
    /\ exists \in SUBSET AllPaths
    /\ fileCols \in DatasetCols
    /\ dpc = "idle"
    /\ ui = <<>>
    /\ cached = FALSE
    /\ member = 1
    /\ choice = 1
    /\ readLog = <<>>
    /\ cacheCols = {}
    /\ runCols = {}
    /\ run_member = 1
    /\ run_choice = 1
    /\ shown = FALSE
    /\ superseded = FALSE
    /\ ChartOff
    /\ inFile = NoFile
    /\ outFile = NoFile
    /\ pc = "off"
    /\ df = NoFrame
    /\ initial_rows = 0
    /\ after_dropna = 0
    /\ after_categorical = 0
    /\ after_numeric = 0
    /\ stdout = <<>>

\* the run starts with the widget values of this moment: st.set_page_config,
\* st.title
RunStart ==
    /\ dpc = "idle"
    /\ ui' = prelude(script)
    /\ dpc' = "load"
    /\ run_member' = member
    /\ run_choice' = choice
    /\ runCols' = {}
    /\ UNCHANGED << script, exists, cached, member, choice, readLog, fileCols,
                    cacheCols, shown, superseded >>
    /\ UNCHANGED << cleanVars, chartVars >>

\* load_data(): st.cache_data returns a copy of the stored frame, the body
\* is not run
LoadCached ==
    /\ dpc = "load"
    /\ cached
    /\ runCols' = cacheCols
    /\ dpc' = "loaded"
    /\ UNCHANGED << script, exists, ui, cached, member, choice, readLog,
                    fileCols, cacheCols, run_member, run_choice, shown,
                    superseded >>
    /\ UNCHANGED << cleanVars, chartVars >>

\* load_data(): the first existing candidate is read and the frame stored
LoadRead ==
    /\ dpc = "load"
    /\ ~cached
    /\ ~load_data_raises(script, exists)
    /\ readLog' = Append(readLog, load_data_path(script, exists))
    /\ cached' = TRUE
    /\ cacheCols' = fileCols
    /\ runCols' = fileCols
    /\ dpc' = "loaded"
    /\ UNCHANGED << script, exists, ui, member, choice, fileCols, run_member,
                    run_choice, shown, superseded >>
    /\ UNCHANGED << cleanVars, chartVars >>

\* load_data() raises inside try: except FileNotFoundError -> st.error, st.stop
LoadNotFoundHandled ==
    /\ dpc = "load"
    /\ ~cached
    /\ load_data_raises(script, exists)
    /\ catches_not_found(script)
    /\ ui' = Append(ui, Element("error", "Dataset not found"))
    /\ dpc' = "stopped"
    /\ UNCHANGED << script, exists, cached, member, choice, readLog, fileCols,
                    cacheCols, runCols, run_member, run_choice, shown,
                    superseded >>
    /\ UNCHANGED << cleanVars, chartVars >>

\* load_data() raises outside any try: the exception leaves the script and
\* the framework shows the traceback
LoadNotFoundUncaught ==
    /\ dpc = "load"
    /\ ~cached
    /\ load_data_raises(script, exists)
    /\ ~catches_not_found(script)
    /\ ui' = Append(ui, Element("exception", "FileNotFoundError"))
    /\ dpc' = "exception"
    /\ UNCHANGED << script, exists, cached, member, choice, readLog, fileCols,
                    cacheCols, runCols, run_member, run_choice, shown,
                    superseded >>
    /\ UNCHANGED << cleanVars, chartVars >>

\* the rest of the script with no exception: the derived columns, the
\* radios, the selected branch's widgets and, for each chart of the run, its
\* plot or the message that takes its place
Render ==
    /\ dpc = "loaded"
    /\ ~top_raises(script, runCols)
    /\ \E os \in run_outcomes(script, run_member, run_choice,
                              derived_columns(script, runCols)) :
       \E k \in radios(script)..Len(widgets(script, run_member, run_choice)) :
          /\ os[Len(os)] # "exception"
          /\ (\A i \in 1..Len(os) : os[i] = "plot")
                => k = Len(widgets(script, run_member, run_choice))
          /\ ui' = ui \o (IF script = Muhammed
                          THEN << Element("title", "title") >> ELSE <<>>)
                      \o rendered(script, run_member, run_choice, k, os)
          /\ shown' = (k > 0)
    /\ runCols' = run_columns(script, run_member, run_choice, runCols)
    /\ cacheCols' = cache_data_store(cacheCols, runCols')
    /\ dpc' = "complete"
    /\ UNCHANGED << script, exists, cached, member, choice, readLog, fileCols,
                    run_member, run_choice, superseded >>
    /\ UNCHANGED << cleanVars, chartVars >>

\* the rest of the script when a statement raises: KeyError at the
\* module-level df["Stress Level"], or an exception in a chart; the framework
\* shows the traceback below what the run had rendered
RenderRaises ==
    /\ dpc = "loaded"
    /\ \/ /\ top_raises(script, runCols)
          /\ ui' = Append(ui \o << Element("title", "title") >>,
                          Element("exception", "Stress_Level_Code"))
          /\ runCols' = runCols
          /\ shown' = FALSE
       \/ /\ ~top_raises(script, runCols)
          /\ \E os \in run_outcomes(script, run_member, run_choice,
                                    derived_columns(script, runCols)) :
             \E k \in radios(script)..Len(widgets(script, run_member, run_choice)) :
                /\ os[Len(os)] = "exception"
                /\ ui' = ui \o (IF script = Muhammed
                                THEN << Element("title", "title") >> ELSE <<>>)
                            \o rendered(script, run_member, run_choice, k, os)
                /\ shown' = (k > 0)
          /\ runCols' = derived_columns(script, runCols)
    /\ cacheCols' = cache_data_store(cacheCols, runCols')
    /\ dpc' = "exception"
    /\ UNCHANGED << script, exists, cached, member, choice, readLog, fileCols,
                    run_member, run_choice, superseded >>
    /\ UNCHANGED << cleanVars, chartVars >>

\* an interaction that stores the new value and leaves the run in progress
\* to go on with the values it started with
Interact_no_rerun ==
    /\ shown
    /\ dpc \in {"load", "loaded", "complete", "exception"}
    /\ \/ /\ script = App
          /\ \E m \in 1..3 : m # member /\ member' = m
          /\ choice' = 1
       \/ /\ script \in {App, Muhammed}
          /\ \E c \in 1..3 : c # choice /\ choice' = c
          /\ UNCHANGED member
       \/ UNCHANGED << member, choice >>
    /\ superseded' = (superseded \/ dpc \in {"load", "loaded"})
    /\ dpc' = IF dpc \in {"load", "loaded"} THEN dpc ELSE "idle"
    /\ UNCHANGED << script, exists, ui, cached, readLog, fileCols, cacheCols,
                    runCols, run_member, run_choice, shown >>
    /\ UNCHANGED << cleanVars, chartVars >>

\* the user changes a widget that is on the screen: the new value is stored,
\* a run in progress is ended where it stands and the script re-runs from
\* the top; a new member shows its chart radio at the first option
Interact ==
    /\ shown
    /\ dpc \in {"load", "loaded", "complete", "exception"}
    /\ \/ /\ script = App
          /\ \E m \in 1..3 : m # member /\ member' = m
          /\ choice' = 1
       \/ /\ script \in {App, Muhammed}
          /\ \E c \in 1..3 : c # choice /\ choice' = c
          /\ UNCHANGED member
       \/ UNCHANGED << member, choice >>
    /\ superseded' = (superseded \/ dpc \in {"load", "loaded"})
    /\ dpc' = "idle"
    /\ UNCHANGED << script, exists, ui, cached, readLog, fileCols, cacheCols,
                    runCols, run_member, run_choice, shown >>
    /\ UNCHANGED << cleanVars, chartVars >>

\* the user re-runs the script with the widgets as they are
Rerun ==
    /\ dpc \in {"stopped", "exception", "complete"}
    /\ dpc' = "idle"
    /\ UNCHANGED << script, exists, ui, cached, member, choice, readLog,
                    fileCols, cacheCols, runCols, run_member, run_choice,
                    shown, superseded >>
    /\ UNCHANGED << cleanVars, chartVars >>

NextDash ==
    \/ RunStart
    \/ LoadCached
    \/ LoadRead
    \/ LoadNotFoundHandled
    \/ LoadNotFoundUncaught
    \/ Render
    \/ RenderRaises
    \/ Interact
    \/ Rerun

SpecDash == InitDash /\ [][NextDash]_vars

(***************************************************************************)
(* The chart handlers of app.py on the rows of a loaded dataset            *)
(***************************************************************************)
Genders == {"Male", "Female"}

\* the country names in sorted order
CountryOrder == << "India", "USA" >>

Levels == 1..3

\* a respondent row of the cleaned dataset; screen time in hundredths of an
\* hour, every number inside its NUMERIC_BOUNDS interval
respondent(g, c, l) ==
    [col \in FullCols |->
        IF col = "Gender" THEN g
        ELSE IF col = "Country" THEN c
        ELSE IF col = "Age" THEN << 18, 35, 70 >>[l]
        ELSE IF col = "Sleep Hours" THEN << 4, 7, 10 >>[l]
        ELSE IF col = "Stress Level" THEN << "Low", "Moderate", "High" >>[l]
        ELSE IF col = "Screen Time per Day (Hours)" THEN << 226, 500, 874 >>[l]
        ELSE IF col = "Social Interaction Score" THEN << 2, 5, 8 >>[l]
        ELSE IF col = "Work Hours per Week" THEN << 20, 40, 60 >>[l]
        ELSE IF col = "Happiness Score" THEN << 3, 6, 9 >>[l]
        ELSE IF col = "Exercise Level" THEN << "High", "Low", "Moderate" >>[l]
        ELSE IF col = "Diet Type" THEN << "Vegan", "Keto", "Vegan" >>[l]
        ELSE << "None", "Anxiety", "None" >>[l]]

Respondents ==
    {respondent(g, CountryOrder[c], l) :
        g \in Genders, c \in 1..Len(CountryOrder), l \in Levels}

Min2(a, b) == IF a <= b THEN a ELSE b

Max2(a, b) == IF a >= b THEN a ELSE b

\* df[col].unique()
column_values(rows, col) == {rows[i][col] : i \in 1..Len(rows)}

\* df[col].min() of a frame with rows
column_min(rows, col) ==
    CHOOSE v \in column_values(rows, col) : \A w \in column_values(rows, col) : v <= w

\* df[col].max() of a frame with rows
column_max(rows, col) ==
    CHOOSE v \in column_values(rows, col) : \A w \in column_values(rows, col) : v >= w

\* the pairs a range slider can return: lo <= hi inside [min_value, max_value]
slider_ranges(min_value, max_value, stops) ==
    LET S == {min_value, max_value}
                \cup {v \in stops : min_value <= v /\ v <= max_value}
    IN  {r \in S \X S : r[1] <= r[2]}

\* round(x, 1) of a value in hundredths
round1(v) == ((v + 5) \div 10) * 10

\* pd.cut(df["Age"], bins=[0, 20, 30, 40, 50, 60, 100], labels=[...]) for
\* the ages of the cleaned dataset, 10..100
age_group(a) ==
    IF a <= 20 THEN "0-20"
    ELSE IF a <= 30 THEN "21-30"
    ELSE IF a <= 40 THEN "31-40"
    ELSE IF a <= 50 THEN "41-50"
    ELSE IF a <= 60 THEN "51-60"
    ELSE "60+"

\* if not X.empty: st.plotly_chart(...) else: st.warning(...)
plot_unless_empty(empty) == IF ~empty THEN "plot" ELSE "warning"

\* scatter_df = df[Gender.isin(...) & (Age_Group == ...) & Sleep Hours.between(...)]
scatter_df(rows, gender_filter, age_group_filter, sleep_min, sleep_max) ==
    LET keep(r) == /\ r["Gender"] \in gender_filter
                   /\ age_group(r["Age"]) = age_group_filter
                   /\ sleep_min <= r["Sleep Hours"]
                   /\ r["Sleep Hours"] <= sleep_max
    IN  SelectSeq(rows, keep)

\* treemap_df = df[Diet Type.isin(...) & Mental Health Condition.isin(...)]
treemap_df(rows, diet_filter, mh_filter) ==
    LET keep(r) == /\ r["Diet Type"] \in diet_filter
                   /\ r["Mental Health Condition"] \in mh_filter
    IN  SelectSeq(rows, keep)

\* .groupby(keys).size().reset_index(name="Count")
group_counts(rows, keys) ==
    LET key_of(r) == [j \in 1..Len(keys) |-> r[keys[j]]]
    IN  { [key |-> k,
           Count |-> Cardinality({i \in 1..Len(rows) : key_of(rows[i]) = k})]
          : k \in {key_of(rows[i]) : i \in 1..Len(rows)} }

\* box_df = df[(Age >= age_min) & (Age <= age_max)]
box_df(rows, age_min, age_max) ==
    LET keep(r) == age_min <= r["Age"] /\ r["Age"] <= age_max
    IN  SelectSeq(rows, keep)

RECURSIVE column_sum(_, _)
column_sum(rows, col) ==
    IF rows = <<>> THEN 0
    ELSE Head(rows)[col] + column_sum(Tail(rows), col)

\* df.groupby("Country", as_index=False)["Happiness Score"].mean(): one
\* entry per country in sorted order; the mean is total / n
mean_happy(rows) ==
    LET present(c) == c \in column_values(rows, "Country")
        keys == SelectSeq(CountryOrder, present)
        of(c) == LET same(r) == r["Country"] = c IN SelectSeq(rows, same)
    IN  [i \in 1..Len(keys) |->
            [Country |-> keys[i],
             total |-> column_sum(of(keys[i]), "Happiness Score"),
             n |-> Len(of(keys[i]))]]

\* the mean of a is at most the mean of b
mean_le(a, b) == a.total * b.n <= b.total * a.n

\* max_for_slider = max(1, min(30, len(mean_happy)))
max_for_slider(n) == Max2(1, Min2(30, n))

\* value=min(10, max_for_slider)
top_n_default(n) == Min2(10, max_for_slider(n))

\* sort_values with the ascending flag turned round
sort_values_inverted(means, ascending) ==
    LET n == Len(means)
        ordered(a, b) == IF ascending THEN mean_le(b, a) ELSE mean_le(a, b)
    IN  { [i \in 1..n |-> means[p[i]]] :
            p \in { q \in [1..n -> 1..n] :
                      /\ \A i, j \in 1..n : q[i] = q[j] => i = j
                      /\ \A i, j \in 1..n : i < j => ordered(means[q[i]], means[q[j]]) } }

\* mean_happy.sort_values("Mean Happiness", ascending=ascending): every
\* order of the rows that is sorted; the order of equal means is not fixed
sort_values(means, ascending) ==
    LET n == Len(means)
        ordered(a, b) == IF ascending THEN mean_le(a, b) ELSE mean_le(b, a)
    IN  { [i \in 1..n |-> means[p[i]]] :
            p \in { q \in [1..n -> 1..n] :
                      /\ \A i, j \in 1..n : q[i] = q[j] => i = j
                      /\ \A i, j \in 1..n : i < j => ordered(means[q[i]], means[q[j]]) } }

\* .head(top_n)
head(rows, k) == SubSeq(rows, 1, Min2(k, Len(rows)))

\* the sunburst filter applied to an empty selection as well
sunburst_df_no_guard(rows, selected_countries) ==
    LET keep(r) == r["Country"] \in selected_countries
    IN  SelectSeq(rows, keep)

\* sb_df = df.copy(); if selected_countries: sb_df = sb_df[Country.isin(...)]
sunburst_df(rows, selected_countries) ==
    LET keep(r) == r["Country"] \in selected_countries
    IN  IF selected_countries # {} THEN SelectSeq(rows, keep) ELSE rows

\* pc_df = df[Stress Level.isin(...) & Work Hours.between(...) & Screen Time.between(...)]
pc_df(rows, selected_stress, work_range, screen_range) ==
    LET keep(r) == /\ r["Stress Level"] \in selected_stress
                   /\ work_range[1] <= r["Work Hours per Week"]
                   /\ r["Work Hours per Week"] <= work_range[2]
                   /\ screen_range[1] <= r["Screen Time per Day (Hours)"]
                   /\ r["Screen Time per Day (Hours)"] <= screen_range[2]
    IN  SelectSeq(rows, keep)

\* the Member 3 filter with the upper end of the screen-time range left out
m3_filter_open_above(rows, selected_gender, selected_country, screen_range) ==
    LET by_gender(r) == r["Gender"] = selected_gender
        by_country(r) == r["Country"] = selected_country
        by_screen(r) == /\ r["Screen Time per Day (Hours)"] >= screen_range[1]
                        /\ r["Screen Time per Day (Hours)"] < screen_range[2]
        f1 == IF selected_gender # "All" THEN SelectSeq(rows, by_gender) ELSE rows
        f2 == IF selected_country # "All" THEN SelectSeq(f1, by_country) ELSE f1
    IN  SelectSeq(f2, by_screen)

\* df_filtered_m3 = df.copy(), then the gender, country and screen-time
\* filters in turn
m3_filter(rows, selected_gender, selected_country, screen_range) ==
    LET by_gender(r) == r["Gender"] = selected_gender
        by_country(r) == r["Country"] = selected_country
        by_screen(r) == /\ r["Screen Time per Day (Hours)"] >= screen_range[1]
                        /\ r["Screen Time per Day (Hours)"] <= screen_range[2]
        f1 == IF selected_gender # "All" THEN SelectSeq(rows, by_gender) ELSE rows
        f2 == IF selected_country # "All" THEN SelectSeq(f1, by_country) ELSE f1
    IN  SelectSeq(f2, by_screen)

\* the numeric columns the scatter matrix offers
numeric_cols == {"Sleep Hours", "Screen Time per Day (Hours)", "Happiness Score"}

\* the handler ends
Ends(h, s, fr, fig, o) ==
    /\ cpc' = "done"
    /\ handler' = h
    /\ sel' = s
    /\ frame' = fr
    /\ figure' = fig
    /\ outcome' = o
    /\ UNCHANGED cdata
    /\ UNCHANGED << cleanVars, dashVars >>

InitChart ==
    /\ \E m \in 0..MaxData : cdata \in [1..m -> Respondents]
    /\ cpc = "start"
    /\ handler = "none"
    /\ sel = <<>>
    /\ frame = <<>>
    /\ figure = <<>>
    /\ outcome = "none"
    /\ DashOff
    /\ CleanOff

\* Member 1, chart 1: on a dataset with no rows the slider bounds are
\* float(nan)
ScatterChart ==
    /\ cpc = "start"
    /\ \/ /\ cdata = <<>>
          /\ \E o \in {"exception", "warning"} :
                Ends("scatter", [gender_filter |-> {}], <<>>, <<>>, o)
       \/ /\ cdata # <<>>
          /\ \E gf \in SUBSET column_values(cdata, "Gender") :
             \E ag \in {age_group(a) : a \in column_values(cdata, "Age")} :
             \E r \in slider_ranges(column_min(cdata, "Sleep Hours"),
                                    column_max(cdata, "Sleep Hours"), {}) :
                LET fr == scatter_df(cdata, gf, ag, r[1], r[2])
                    o == plot_unless_empty(fr = <<>>)
                IN  Ends("scatter",
                         [gender_filter |-> gf, age_group_filter |-> ag,
                          sleep_min |-> r[1], sleep_max |-> r[2]],
                         fr, IF o = "plot" THEN fr ELSE <<>>, o)

\* Member 1, chart 2
TreemapChart ==
    /\ cpc = "start"
    /\ \E df_ \in SUBSET column_values(cdata, "Diet Type") :
       \E mf \in SUBSET column_values(cdata, "Mental Health Condition") :
          LET fr == treemap_df(cdata, df_, mf)
              grouped == group_counts(fr, << "Diet Type", "Mental Health Condition" >>)
              o == plot_unless_empty(grouped = {})
          IN  Ends("treemap", [diet_filter |-> df_, mh_filter |-> mf],
                   fr, IF o = "plot" THEN grouped ELSE <<>>, o)

\* Member 1, chart 3: the slider's bounds are widened to hold its default
\* (18, 40); on a dataset with no rows int(nan) raises ValueError
BoxChart ==
    /\ cpc = "start"
    /\ \/ /\ cdata = <<>>
          /\ Ends("box", [age_min |-> 0, age_max |-> 0], <<>>, <<>>, "exception")
       \/ /\ cdata # <<>>
          /\ \E r \in slider_ranges(Min2(column_min(cdata, "Age"), 18),
                                    Max2(column_max(cdata, "Age"), 40), {18, 40}) :
                LET fr == box_df(cdata, r[1], r[2])
                    o == plot_unless_empty(fr = <<>>)
                IN  Ends("box", [age_min |-> r[1], age_max |-> r[2]],
                         fr, IF o = "plot" THEN fr ELSE <<>>, o)

\* Member 2, chart 4: the mean of an empty frame's Happiness Score column,
\* read as text, raises in some versions of the library
BarChart ==
    /\ cpc = "start"
    /\ \/ /\ cdata = <<>>
          /\ \E o \in {"exception", "warning"} :
                Ends("bar", [top_n |-> 0], <<>>, <<>>, o)
       \/ /\ cdata # <<>>
          /\ LET means == mean_happy(cdata)
             IN  \E top_n \in 1..max_for_slider(Len(means)) :
                 \E ascending \in BOOLEAN :
                 \E sorted \in sort_values(means, ascending) :
                    Ends("bar",
                         [top_n |-> top_n, ascending |-> ascending,
                          max_value |-> max_for_slider(Len(means)),
                          value |-> top_n_default(Len(means))],
                         means, head(sorted, top_n),
                         plot_unless_empty(means = <<>>))

\* Member 2, chart 5
SunburstChart ==
    /\ cpc = "start"
    /\ \E sc \in SUBSET column_values(cdata, "Country") :
          LET fr == sunburst_df(cdata, sc)
              grouped == group_counts(fr, << "Country", "Exercise Level",
                                             "Mental Health Condition" >>)
              o == plot_unless_empty(grouped = {})
          IN  Ends("sunburst", [selected_countries |-> sc],
                   fr, IF o = "plot" THEN grouped ELSE <<>>, o)

\* Member 2, chart 6: on a dataset with no rows int(nan) raises ValueError
ParallelChart ==
    /\ cpc = "start"
    /\ \/ /\ cdata = <<>>
          /\ Ends("parallel", [selected_stress |-> {}], <<>>, <<>>, "exception")
       \/ /\ cdata # <<>>
          /\ \E ss \in SUBSET column_values(cdata, "Stress Level") :
             \E wr \in slider_ranges(column_min(cdata, "Work Hours per Week"),
                                     column_max(cdata, "Work Hours per Week"), {}) :
             \E sr \in slider_ranges(column_min(cdata, "Screen Time per Day (Hours)"),
                                     column_max(cdata, "Screen Time per Day (Hours)"), {}) :
                LET fr == pc_df(cdata, ss, wr, sr)
                    o == plot_unless_empty(fr = <<>>)
                IN  Ends("parallel",
                         [selected_stress |-> ss, work_range |-> wr,
                          screen_range |-> sr],
                         fr, IF o = "plot" THEN fr ELSE <<>>, o)

\* Member 3: the shared filters; on a dataset with no rows the slider bounds
\* are round(float(nan), 1)
Member3Filter ==
    /\ cpc = "start"
    /\ \/ /\ cdata = <<>>
          /\ \/ Ends("m3_filter", [selected_gender |-> "All"], <<>>, <<>>, "exception")
             \/ /\ cpc' = "filtered"
                /\ handler' = "m3_filter"
                /\ sel' = [selected_gender |-> "All", selected_country |-> "All",
                           screen_range |-> << 0, 0 >>]
                /\ frame' = <<>>
                /\ UNCHANGED << cdata, figure, outcome >>
                /\ UNCHANGED << cleanVars, dashVars >>
       \/ /\ cdata # <<>>
          /\ \E g \in {"All"} \cup column_values(cdata, "Gender") :
             \E c \in {"All"} \cup column_values(cdata, "Country") :
             \E r \in slider_ranges(
                         round1(column_min(cdata, "Screen Time per Day (Hours)")),
                         round1(column_max(cdata, "Screen Time per Day (Hours)")),
                         {500}) :
                /\ cpc' = "filtered"
                /\ handler' = "m3_filter"
                /\ sel' = [selected_gender |-> g, selected_country |-> c,
                           screen_range |-> r]
                /\ frame' = m3_filter(cdata, g, c, r)
                /\ UNCHANGED << cdata, figure, outcome >>
                /\ UNCHANGED << cleanVars, dashVars >>

\* Member 3, chart 7
ScatterMatrixChart ==
    /\ cpc = "filtered"
    /\ IF frame = <<>>
       THEN Ends("scatter_matrix", [selected_dims |-> {}], frame, <<>>, "warning")
       ELSE \E dims \in SUBSET numeric_cols :
               IF Cardinality(dims) < 2
               THEN Ends("scatter_matrix", [selected_dims |-> dims], frame, <<>>, "info")
               ELSE Ends("scatter_matrix", [selected_dims |-> dims], frame, frame, "plot")

\* Member 3, chart 8: pd.cut raises ValueError when the bin edges
\* np.linspace(minv, maxv, bin_count + 1) are all equal
HeatmapChart ==
    /\ cpc = "filtered"
    /\ IF frame = <<>>
       THEN Ends("heatmap", [bin_count |-> 0], frame, <<>>, "warning")
       ELSE \E bin_count \in {3, 5, 10} :
               IF column_min(frame, "Screen Time per Day (Hours)")
                     = column_max(frame, "Screen Time per Day (Hours)")
               THEN Ends("heatmap", [bin_count |-> bin_count], frame, <<>>, "exception")
               ELSE Ends("heatmap", [bin_count |-> bin_count], frame, frame, "plot")

\* Member 3, chart 9
ViolinChart ==
    /\ cpc = "filtered"
    /\ IF frame = <<>>
       THEN Ends("violin", [selected_gender |-> "All"], frame, <<>>, "warning")
       ELSE \E g \in {"All"} \cup column_values(frame, "Gender") :
               LET same(r) == r["Gender"] = g
                   df_plot == IF g # "All" THEN SelectSeq(frame, same) ELSE frame
                   o == plot_unless_empty(df_plot = <<>>)
               IN  Ends("violin", [selected_gender |-> g], frame,
                        IF o = "plot" THEN df_plot ELSE <<>>, o)

NextChart ==
    \/ ScatterChart
    \/ TreemapChart
    \/ BoxChart
    \/ BarChart
    \/ SunburstChart
    \/ ParallelChart
    \/ Member3Filter
    \/ ScatterMatrixChart
    \/ HeatmapChart
    \/ ViolinChart

SpecChart == InitChart /\ [][NextChart]_vars

(***************************************************************************)
(* Claims about the cleaning script                                        *)
(***************************************************************************)
Written == outFile.kind = "table"

OutRows == 1..Len(outFile.rows)

\* a missing value of a file: pandas' NaN or an empty field
Missing(v) == v.k = "nan" \/ (v.k = "str" /\ v.s = <<>>)

\* C1: every row written has each NUMERIC_BOUNDS column that the input has
\* inside that column's closed interval [lo, hi]
C1_NumericBoundsHold ==
    Written =>
        \A i \in OutRows : \A c \in (DOMAIN NUMERIC_BOUNDS) \cap outFile.cols :
            /\ outFile.rows[i][c].k = "num"
            /\ NUMERIC_BOUNDS[c][1] <= outFile.rows[i][c].n
            /\ outFile.rows[i][c].n <= NUMERIC_BOUNDS[c][2]

\* a run that dropped an out-of-range row and wrote a row at an end of an interval
C1_Witness ==
    /\ Written
    /\ Len(outFile.rows) < initial_rows
    /\ after_numeric < after_categorical
    /\ \E i \in OutRows : \E c \in (DOMAIN NUMERIC_BOUNDS) \cap outFile.cols :
          outFile.rows[i][c].n \in {NUMERIC_BOUNDS[c][1], NUMERIC_BOUNDS[c][2]}

\* text that str.title() leaves as it is: a cased character is upper case
\* exactly when no cased character precedes it
IsTitleCased(s) ==
    \A i \in 1..Len(s) :
        IsCased(s[i]) => (IsUpper(s[i]) <=> (i = 1 \/ ~IsCased(s[i - 1])))

\* C2 as stated: every row written has, in each of the six normalized
\* categorical columns, a title-cased value of that column's allowed set
C2_AllNormalizedColumnsInAllowedSet ==
    Written =>
        \A i \in OutRows : \A c \in NORMALIZE_TITLE \cap outFile.cols :
            /\ c \in DOMAIN SAFE_FILTER_SETS
            /\ isin(outFile.rows[i][c], SAFE_FILTER_SETS[c])
            /\ IsTitleCased(outFile.rows[i][c].s)

\* C2 amended: every row written has Gender, Stress Level and Exercise Level
\* in the column's SAFE_FILTER_SETS entry, and has title-cased text (possibly
\* empty) in each of the six NORMALIZE_TITLE columns
C2_FilteredInAllowedSetAllTitleCased ==
    Written =>
        \A i \in OutRows :
            /\ \A c \in (DOMAIN SAFE_FILTER_SETS) \cap outFile.cols :
                  /\ outFile.rows[i][c].k = "str"
                  /\ outFile.rows[i][c].s \in SAFE_FILTER_SETS[c]
            /\ \A c \in NORMALIZE_TITLE \cap outFile.cols :
                  /\ outFile.rows[i][c].k = "str"
                  /\ IsTitleCased(outFile.rows[i][c].s)

\* a row written whose normalized column differs from the input's field
C2_Witness ==
    /\ Written
    /\ \E i \in OutRows : \E c \in NORMALIZE_TITLE \cap outFile.cols :
          /\ outFile.rows[i][c] # inFile.rows[df.rows[i].idx][c]
          /\ outFile.rows[i][c].s # <<>>

\* C3 as stated: no row written has a missing (null or empty) value in an
\* essential column that the input has
C3_NoMissingEssentialInOutput ==
    Written =>
        \A i \in OutRows : \A c \in ESSENTIAL_NOT_NULL \cap outFile.cols :
            ~Missing(outFile.rows[i][c])

\* C4: the row count never increases from one stage to the next
C4_RowCountNonIncreasing ==
    /\ pc \in {"dropna", "normalized", "categorical", "numeric", "saved", "done"}
          => initial_rows >= after_dropna
    /\ pc \in {"categorical", "numeric", "saved", "done"}
          => after_dropna >= after_categorical
    /\ pc \in {"numeric", "saved", "done"}
          => after_categorical >= after_numeric
    /\ pc \in {"read", "dropna", "normalized", "categorical", "numeric", "saved", "done"}
          => Len(df.rows) <= initial_rows
    /\ Written => Len(outFile.rows) <= initial_rows

\* a finished run in which both filters dropped a row
C4_Witness ==
    /\ pc = "done"
    /\ after_dropna > after_categorical
    /\ after_categorical > after_numeric

RECURSIVE Fold(_)
Fold(s) ==
    IF s = <<>> THEN s
    ELSE IF Head(s) \in Whitespace THEN Fold(Tail(s))
    ELSE <<ToLower(Head(s))>> \o Fold(Tail(s))

\* b is a with nothing but letter case and whitespace changed
SameText(a, b) == a.k = b.k /\ a.n = b.n /\ Fold(a.s) = Fold(b.s)

\* b holds the value of the field a: the same field, or the number that a
\* numeric literal denotes
SameValue(a, b) == b = a \/ (a.k = "lit" /\ b = Num(a.n))

\* the rows of a frame are input rows, each at most once, in the input's
\* order, unchanged in value outside NORMALIZE_TITLE and changed in case and
\* whitespace only inside it
FilteredCopy(rows) ==
    /\ \A i \in 1..Len(rows) : rows[i].idx \in 1..Len(inFile.rows)
    /\ \A i, j \in 1..Len(rows) : i < j => rows[i].idx < rows[j].idx
    /\ \A i \in 1..Len(rows) : \A c \in inFile.cols :
          IF c \in NORMALIZE_TITLE
          THEN SameText(inFile.rows[rows[i].idx][c], rows[i].cells[c])
          ELSE SameValue(inFile.rows[rows[i].idx][c], rows[i].cells[c])

\* C6: the output is a filtered copy of the input
C6_OutputIsFilteredCopy ==
    /\ pc \in {"read", "dropna", "normalized", "categorical", "numeric", "saved", "done"}
          => FilteredCopy(df.rows)
    /\ Written =>
          /\ Len(outFile.rows) = Len(df.rows)
          /\ \A i \in OutRows : \A c \in inFile.cols :
                outFile.rows[i][c] = df.rows[i].cells[c]

\* the second of two input rows is written, the first is not, and a
\* column outside NORMALIZE_TITLE is in the output
C6_Witness ==
    /\ Written
    /\ Len(inFile.rows) = 2
    /\ Len(df.rows) = 1
    /\ df.rows[1].idx = 2
    /\ outFile.cols \ NORMALIZE_TITLE # {}

\* input row i has no missing value in an essential column and passes the
\* categorical and the numeric filter
PassesAll(i) ==
    /\ \A c \in ESSENTIAL_NOT_NULL \cap inFile.cols : ~Missing(inFile.rows[i][c])
    /\ \A c \in (DOMAIN SAFE_FILTER_SETS) \cap inFile.cols :
          LET v == inFile.rows[i][c]
          IN  v.k = "str" /\ title(collapse_ws(strip(v.s))) \in SAFE_FILTER_SETS[c]
    /\ \A c \in (DOMAIN NUMERIC_BOUNDS) \cap inFile.cols :
          LET v == inFile.rows[i][c]
          IN  v.k = "num" /\ NUMERIC_BOUNDS[c][1] <= v.n /\ v.n <= NUMERIC_BOUNDS[c][2]

\* C7: once the output is written, every input row that passes both filters
\* and has its missing values, if any, outside ESSENTIAL_NOT_NULL is in it
C7_OnlyEssentialMissingDrops ==
    Written =>
        \A i \in 1..Len(inFile.rows) :
            PassesAll(i) => \E j \in 1..Len(df.rows) : df.rows[j].idx = i

\* a row written that has an empty field in the column outside ESSENTIAL_NOT_NULL
C7_Witness ==
    /\ Written
    /\ \E j \in 1..Len(df.rows) : \E c \in inFile.cols \ ESSENTIAL_NOT_NULL :
          /\ Missing(inFile.rows[df.rows[j].idx][c])
          /\ PassesAll(df.rows[j].idx)
          /\ Cardinality(inFile.cols) = 2

\* C8: the report is printed whole, six lines, only after the output is
\* written; its last count is the number of rows of the written file; a
\* finished run has printed it
C8_ReportAfterWrite ==
    /\ stdout # <<>> =>
          /\ Written
          /\ Len(stdout) = 6
          /\ stdout[1] = <<"=== Cleaning Report ===">>
          /\ stdout[2] = <<"Input rows:", Len(inFile.rows)>>
          /\ stdout[3][1] = "After dropna (essential cols only):"
          /\ stdout[4][1] = "After categorical fix:"
          /\ stdout[5] = <<"After numeric bounds:", Len(outFile.rows)>>
          /\ stdout[6] = <<"Output saved to:", OutputPath>>
    /\ pc = "done" => stdout # <<>>
    /\ pc \in {"start", "read", "dropna", "normalized", "categorical", "numeric", "saved", "error"}
          => stdout = <<>>

\* a finished run whose numeric filter dropped a row
C8_Witness ==
    /\ pc = "done"
    /\ Len(stdout) = 6
    /\ stdout[5][2] < stdout[4][2]

\* C9: when the input cannot be parsed the run ends in the error state with
\* nothing written and nothing printed
C9_ParseFailurePropagates ==
    (inFile.kind # "table" /\ pc # "start") =>
        /\ pc = "error"
        /\ outFile = NoFile
        /\ stdout = <<>>
        /\ df = NoFrame

\* the run has failed on a file with a row of too many fields
C9_Witness == pc = "error" /\ inFile.kind = "ragged"

\* the words of a text: its maximal runs of non-whitespace, lower-cased
RECURSIVE WordsFrom(_, _)
WordsFrom(s, cur) ==
    IF s = <<>> THEN (IF cur = <<>> THEN <<>> ELSE <<cur>>)
    ELSE IF Head(s) \in Whitespace
         THEN (IF cur = <<>> THEN <<>> ELSE <<cur>>) \o WordsFrom(Tail(s), <<>>)
         ELSE WordsFrom(Tail(s), Append(cur, ToLower(Head(s))))

Words(s) == WordsFrom(s, <<>>)

\* the field differs from an allowed value of column c at most in
\* surrounding whitespace, in the length of its whitespace runs and in
\* letter case
NearAllowed(v, c) ==
    v.k = "str" /\ \E a \in SAFE_FILTER_SETS[c] : Words(v.s) = Words(a)

\* C15: after the categorical filter the frame holds exactly the input rows
\* whose Stress Level, Exercise Level and Gender (those present) differ from
\* an allowed value at most in whitespace and letter case
C15_NormalizedBeforeCategoricalFilter ==
    pc = "categorical" =>
        \A i \in 1..Len(inFile.rows) :
            (\E j \in 1..Len(df.rows) : df.rows[j].idx = i)
                <=> \A c \in (DOMAIN SAFE_FILTER_SETS) \cap inFile.cols :
                        NearAllowed(inFile.rows[i][c], c)

\* the filter kept a row whose Gender has a doubled space, a tab and other
\* letter case than the allowed value, and dropped another row
C15_Witness ==
    /\ pc = "categorical"
    /\ "Gender" \in inFile.cols
    /\ Len(df.rows) < Len(inFile.rows)
    /\ \E j \in 1..Len(df.rows) :
          LET v == inFile.rows[df.rows[j].idx]["Gender"]
          IN  /\ Len(v.s) = 18
              /\ df.rows[j].cells["Gender"].s \in SAFE_FILTER_SETS["Gender"]

\* input row i passes the categorical and the numeric filter on the columns
\* the input has
PassesPresent(i) ==
    /\ \A c \in (DOMAIN SAFE_FILTER_SETS) \cap inFile.cols :
          NearAllowed(inFile.rows[i][c], c)
    /\ \A c \in (DOMAIN NUMERIC_BOUNDS) \cap inFile.cols :
          LET v == inFile.rows[i][c]
          IN  v.k = "num" /\ NUMERIC_BOUNDS[c][1] <= v.n /\ v.n <= NUMERIC_BOUNDS[c][2]

\* C16: a column absent from the input costs no error and no row: a run on
\* a parsed input fails only on a present bounded column with a non-numeric
\* field, and a run that writes keeps exactly the rows that pass the filters
\* of the columns present
C16_AbsentColumnsSkipped ==
    /\ (inFile.kind = "table" /\ pc = "error") =>
          \E c \in (DOMAIN NUMERIC_BOUNDS) \cap inFile.cols :
             \E i \in 1..Len(inFile.rows) : inFile.rows[i][c].k # "num"
    /\ Written =>
          \A i \in 1..Len(inFile.rows) :
              (\E j \in 1..Len(df.rows) : df.rows[j].idx = i) <=> PassesPresent(i)

\* an input with the single column Gender: one row kept, one dropped
C16_Witness ==
    /\ Written
    /\ inFile.cols = {"Gender"}
    /\ Len(inFile.rows) = 2
    /\ Len(outFile.rows) = 1

(***************************************************************************)
(* Claims about the dashboards                                             *)
(***************************************************************************)
RunEnded == dpc \in {"stopped", "exception", "complete"}

Kinds == {ui[i].kind : i \in 1..Len(ui)}

\* C10 as stated: in every dashboard, a run that finds no dataset file ends
\* stopped by the script, shows the error message and has rendered no
\* widget and no chart; it does not end in an uncaught exception
C10_NotFoundShowsErrorAndStops ==
    (RunEnded /\ ~cached /\ load_data_raises(script, exists)) =>
        /\ dpc = "stopped"
        /\ "error" \in Kinds
        /\ Kinds \cap {"widget", "plot", "warning", "info", "exception"} = {}

\* a FileNotFoundError ended the run
NotFoundRaised ==
    /\ dpc \in {"stopped", "exception"}
    /\ ui # <<>>
    /\ ui[Len(ui)] \in {Element("error", "Dataset not found"),
                        Element("exception", "FileNotFoundError")}

\* p is a candidate of the script that exists, and no candidate before it
\* in the list exists
FirstExistingCandidate(p) ==
    LET paths == candidate_paths(script)
    IN  \E i \in 1..Len(paths) :
           /\ paths[i] = p
           /\ p \in exists
           /\ \A j \in 1..(i - 1) : paths[j] \notin exists

NoCandidateExists ==
    \A i \in 1..Len(candidate_paths(script)) : candidate_paths(script)[i] \notin exists

\* C12: load_data reads one file, the first candidate of its list that
\* exists, and no other; a run ends in FileNotFoundError exactly when no
\* candidate exists
C12_FirstExistingCandidateLoaded ==
    /\ Len(readLog) <= 1
    /\ \A k \in 1..Len(readLog) : FirstExistingCandidate(readLog[k])
    /\ cached => Len(readLog) = 1
    /\ NotFoundRaised => NoCandidateExists
    /\ (NoCandidateExists /\ dpc \notin {"idle", "load"}) => NotFoundRaised

\* app.py has loaded its second candidate while the third exists as well
C12_Witness ==
    /\ script = App
    /\ dpc = "loaded"
    /\ candidate_paths(App)[1] \notin exists
    /\ candidate_paths(App)[3] \in exists
    /\ readLog = << candidate_paths(App)[2] >>

\* C13: in a session the dataset file is read at most once; every run after
\* that read gets its frame from the cache, and that frame has the file's
\* columns, without the columns earlier runs derived
C13_ReadOnceCacheUnaltered ==
    /\ Len(readLog) <= 1
    /\ cached => (Len(readLog) = 1 /\ cacheCols = fileCols)
    /\ dpc = "loaded" => runCols = fileCols

\* app.py starts its run for the treemap: the run before it rendered the
\* scatter branch, which added Stress_Level_Code, Age_Group and Stress_Num to
\* its df
C13_Witness ==
    /\ script = App
    /\ dpc = "loaded"
    /\ fileCols = FullCols
    /\ run_member = 1
    /\ run_choice = 2
    /\ Len(readLog) = 1
    /\ runCols = fileCols

\* the chart elements at the end of the run's output
ChartsDisplayed ==
    LET n == Len(charts(script, run_member, run_choice))
    IN  [i \in 1..n |-> ui[Len(ui) - n + i].name]

C11_MissingColumnShowsMessage ==
    (cached /\ dpc \in {"complete", "exception"}) =>
        \A i \in 1..Len(charts(script, run_member, run_choice)) :
            LET chart == charts(script, run_member, run_choice)[i]
            IN  ~(expects(chart) \subseteq derived_columns(script, fileCols)) =>
                   /\ dpc = "complete"
                   /\ \E j \in 1..Len(ui) :
                         ui[j].name = chart /\ ui[j].kind \in {"info", "warning"}

\* the member section of app.py a widget key is created in
SectionOfKey(key) ==
    IF key = "member_selector" THEN 0
    ELSE IF key \in {"m2_chart_choice", "m2_scatter_gender", "m2_scatter_age_group",
                     "m2_scatter_sleep_range", "m2_tree_diet", "m2_tree_mh",
                     "m2_box_age_range"} THEN 1
    ELSE IF key \in {"m1_tab_choice_radio", "m1_bar_top_n", "m1_bar_order",
                     "m1_sb_countries", "m1_pc_stress_levels", "m1_pc_work_range",
                     "m1_pc_screen_range"} THEN 2
    ELSE 3

\* the number the user interface gives the chart a widget key belongs to;
\* 0 for a radio and for the filters the Member 3 charts share
ChartOfKey(key) ==
    IF key \in {"m2_scatter_gender", "m2_scatter_age_group",
                "m2_scatter_sleep_range"} THEN 1
    ELSE IF key \in {"m2_tree_diet", "m2_tree_mh"} THEN 2
    ELSE IF key = "m2_box_age_range" THEN 3
    ELSE IF key \in {"m1_bar_top_n", "m1_bar_order"} THEN 4
    ELSE IF key = "m1_sb_countries" THEN 5
    ELSE IF key \in {"m1_pc_stress_levels", "m1_pc_work_range",
                     "m1_pc_screen_range"} THEN 6
    ELSE IF key = "m3_scatter_dims" THEN 7
    ELSE IF key = "m3_heatmap_bins" THEN 8
    ELSE IF key = "m3_violin_gender" THEN 9
    ELSE 0

\* the charts of app.py by the number the user interface gives them
ChartNumbered ==
    << "scatter", "treemap", "box", "bar", "sunburst", "parallel",
       "scatter_matrix", "heatmap", "violin" >>

\* the elements of the run's output that a chart handler ended with
HandlerElements ==
    {i \in 1..Len(ui) : ui[i].kind \in Outcomes \cup {"exception"}}

\* C21: a run of app.py that has loaded the dataset and ended shows the
\* outcome of one chart handler, the one with number 3 * (member - 1) +
\* choice, and every widget it created is a radio or belongs to that member
\* section and to no other chart
C21_OneSectionOneChart ==
    (script = App /\ cached /\ dpc \in {"complete", "exception"}) =>
        /\ Cardinality(HandlerElements) = 1
        /\ \A i \in HandlerElements :
              ui[i].name = ChartNumbered[3 * (run_member - 1) + run_choice]
        /\ \A i \in 1..Len(ui) :
              ui[i].kind = "widget" =>
                 /\ SectionOfKey(ui[i].name) \in {0, run_member}
                 /\ ChartOfKey(ui[i].name) \in {0, 3 * (run_member - 1) + run_choice}

\* app.py has plotted the parallel coordinates of Member 2 with its three
\* widgets
C21_Witness ==
    /\ script = App
    /\ dpc = "complete"
    /\ member = 2
    /\ choice = 3
    /\ ui[Len(ui)] = Element("plot", "parallel")
    /\ \E i \in 1..Len(ui) : ui[i] = Element("widget", "m1_pc_screen_range")

(***************************************************************************)
(* Claims about the chart handlers                                         *)
(***************************************************************************)
\* row r passes the Member 3 selection
PassesMember3(r) ==
    /\ sel.selected_gender = "All" \/ r["Gender"] = sel.selected_gender
    /\ sel.selected_country = "All" \/ r["Country"] = sel.selected_country
    /\ sel.screen_range[1] <= r["Screen Time per Day (Hours)"]
    /\ r["Screen Time per Day (Hours)"] <= sel.screen_range[2]

\* the Member 3 filtered frame holds the rows that pass the selection, each
\* as often and in the order the dataset has it
Member3FrameExact ==
    cpc = "filtered" => frame = SelectSeq(cdata, PassesMember3)

\* C17: the Member 3 filtered frame is exactly the rows of the loaded
\* dataset with the selected gender (any for 'All'), the selected country
\* (any for 'All') and a screen time inside the closed selected range, and no
\* step of a handler changes the loaded dataset
C17_Member3FilterExact ==
    []Member3FrameExact /\ [][cdata' = cdata]_vars

\* a gender and a country are selected, a row whose screen time equals the
\* upper end of the range is kept and another row is filtered out
C17_Witness ==
    /\ cpc = "filtered"
    /\ sel.selected_gender # "All"
    /\ sel.selected_country # "All"
    /\ Len(cdata) = 2
    /\ Len(frame) = 1
    /\ frame[1]["Screen Time per Day (Hours)"] = sel.screen_range[2]

\* the handler of a chart has ended
ChartEnded == cpc = "done" /\ handler # "m3_filter"

\* C18 as stated: a chart whose filters leave no rows shows the warning, and
\* a chart is plotted only from a frame that has rows
C18_NoRowsShowsWarning ==
    ChartEnded =>
        /\ frame = <<>> => outcome = "warning"
        /\ outcome = "plot" => frame # <<>>

RECURSIVE SumCounts(_)
SumCounts(groups) ==
    IF groups = {} THEN 0
    ELSE LET g == CHOOSE x \in groups : TRUE
         IN  g.Count + SumCounts(groups \ {g})

\* the rows the sunburst counts: all rows for an empty selection
SunburstRowsConsidered ==
    LET chosen(r) == r["Country"] \in sel.selected_countries
    IN  IF sel.selected_countries = {} THEN cdata ELSE SelectSeq(cdata, chosen)

\* C19: the sunburst counts the whole dataset when no country is selected
\* and exactly the rows of the selected countries otherwise; the counts sum
\* to the number of rows considered and every such row is in one group
C19_SunburstCountsAllWhenNoneSelected ==
    (cpc = "done" /\ handler = "sunburst") =>
        /\ frame = SunburstRowsConsidered
        /\ sel.selected_countries = {} => Len(frame) = Len(cdata)
        /\ outcome = "plot" =>
              /\ SumCounts(figure) = Len(frame)
              /\ \A i \in 1..Len(frame) :
                    \E g \in figure :
                       g.key = << frame[i]["Country"], frame[i]["Exercise Level"],
                                  frame[i]["Mental Health Condition"] >>

\* no country is selected and the sunburst shows two groups of one row each
C19_Witness ==
    /\ cpc = "done"
    /\ handler = "sunburst"
    /\ sel.selected_countries = {}
    /\ outcome = "plot"
    /\ Len(cdata) = 2
    /\ Cardinality(figure) = 2

RECURSIVE HappinessTotal(_, _)
HappinessTotal(c, i) ==
    IF i = 0 THEN 0
    ELSE (IF cdata[i]["Country"] = c THEN cdata[i]["Happiness Score"] ELSE 0)
            + HappinessTotal(c, i - 1)

RowsOf(c) == Cardinality({i \in 1..Len(cdata) : cdata[i]["Country"] = c})

\* the mean happiness of country a is at least that of country b
MeanAtLeast(a, b) ==
    HappinessTotal(a, Len(cdata)) * RowsOf(b) >= HappinessTotal(b, Len(cdata)) * RowsOf(a)

\* C20: the bar chart shows min(top_n, number of countries) different
\* countries, each with its mean; in descending order no country left out
\* has a higher mean than a country shown, in ascending order none has a
\* lower one; and 1 <= default <= max_for_slider = max(1, min(30, countries))
C20_BarShowsTopN ==
    /\ \A n \in 0..MaxCountries :
          /\ 1 <= top_n_default(n)
          /\ top_n_default(n) <= max_for_slider(n)
          /\ max_for_slider(n) = (IF n < 1 THEN 1 ELSE IF n > 30 THEN 30 ELSE n)
    /\ (cpc = "done" /\ handler = "bar" /\ outcome = "plot") =>
          LET countries == {cdata[i]["Country"] : i \in 1..Len(cdata)}
              bars == {figure[i].Country : i \in 1..Len(figure)}
          IN  /\ Len(figure) = Min2(sel.top_n, Cardinality(countries))
              /\ Cardinality(bars) = Len(figure)
              /\ bars \subseteq countries
              /\ \A i \in 1..Len(figure) :
                    /\ figure[i].total = HappinessTotal(figure[i].Country, Len(cdata))
                    /\ figure[i].n = RowsOf(figure[i].Country)
              /\ \A a \in bars : \A b \in countries \ bars :
                    IF sel.ascending THEN MeanAtLeast(b, a) ELSE MeanAtLeast(a, b)
              /\ sel.max_value = Max2(1, Min2(30, Cardinality(countries)))
              /\ 1 <= sel.value /\ sel.value <= sel.max_value
              /\ 1 <= sel.top_n /\ sel.top_n <= sel.max_value

\* two countries with different means, the one bar shown is the happier
C20_Witness ==
    /\ cpc = "done"
    /\ handler = "bar"
    /\ outcome = "plot"
    /\ sel.top_n = 1
    /\ ~sel.ascending
    /\ Len(cdata) = 2
    /\ cdata[1]["Country"] # cdata[2]["Country"]
    /\ cdata[1]["Happiness Score"] < cdata[2]["Happiness Score"]
    /\ figure = << [Country |-> cdata[2]["Country"],
                    total |-> cdata[2]["Happiness Score"], n |-> 1] >>

(***************************************************************************)
(* Claims about the cleaning script run on its own output                  *)
(***************************************************************************)
ReportLen == Len(report_lines(0, 0, 0, 0, OutputPath))

\* the script is running, or has run, on the file its first run wrote
SecondRun == Len(stdout) >= ReportLen /\ ~(pc = "done" /\ Len(stdout) = ReportLen)

\* the second run has printed its report
SecondRunEnded == pc = "done" /\ Len(stdout) = 2 * ReportLen

\* the four counts of the second report are the number of rows of the first
\* output
SecondReportSameCounts ==
    \A j \in 2..5 : stdout[ReportLen + j][2] = Len(inFile.rows)

\* every field of column c of the first output is a numeric literal
AllNumeric(c) ==
    \A j \in 1..Len(inFile.rows) : inFile.rows[j][c].k \in {"num", "lit"}

=============================================================================
